---- MODULE Spec2Model ----
(***************************************************************************)
(* Model of src/context.ts of build-push-action: the argument builder that *)
(* turns an Inputs record and the answers of the toolkit (buildx/buildkit  *)
(* versions, secret resolution, repository visibility) into the token     *)
(* list of a `buildx build` invocation.                                    *)
(*                                                                         *)
(* Representation of strings.  A string is a sequence of atoms; an atom is *)
(* an indivisible piece of text.  The separators "," and "=" and the       *)
(* template placeholder "{{defaultContext}}" are atoms of their own, so    *)
(* that splitting, joining, prefix tests and template expansion are       *)
(* computed and not assumed:                                               *)
(*      "type=provenance,mode=max"                                         *)
(*   is <<"type", "=", "provenance", ",", "mode", "=", "max">>.            *)
(* A token of the argument list is one string; the argument list and the  *)
(* list of warnings are sequences of strings.                              *)
(***************************************************************************)
EXTENDS Integers, Sequences, FiniteSets, TLC

VARIABLES inputs, env, pc, index, context, buildArgs, attestArgs, hasAttestProvenance,
          provenanceSet, sbomSet, commonArgs, args, warnings

vars == <<inputs, env, pc, index, context, buildArgs, attestArgs, hasAttestProvenance,
          provenanceSet, sbomSet, commonArgs, args, warnings>>

-----------------------------------------------------------------------------
(* Bounds of the model.                                                    *)

MaxAttests == 2
MaxSecrets == 2
MaxList == 2

-----------------------------------------------------------------------------
(* Generic string and list helpers.                                        *)

Str(a) == <<a>>

Truthy(s) == s # <<>>

RECURSIVE Split(_, _)
Split(s, sep) ==
  IF \A i \in 1..Len(s) : s[i] # sep
  THEN <<s>>
  ELSE LET i == CHOOSE k \in 1..Len(s) :
                  s[k] = sep /\ \A j \in 1..(k - 1) : s[j] # sep
       IN  <<SubSeq(s, 1, i - 1)>> \o Split(SubSeq(s, i + 1, Len(s)), sep)

RECURSIVE Join(_, _)
Join(parts, sep) ==
  IF parts = <<>> THEN <<>>
  ELSE IF Len(parts) = 1 THEN parts[1]
  ELSE parts[1] \o <<sep>> \o Join(Tail(parts), sep)

StartsWith(s, prefix) ==
  Len(prefix) <= Len(s) /\ SubSeq(s, 1, Len(prefix)) = prefix

RECURSIVE Flatten(_)
Flatten(ss) == IF ss = <<>> THEN <<>> ELSE ss[1] \o Flatten(Tail(ss))

SeqsUpTo(S, n) == UNION {[1..k -> S] : k \in 0..n}

-----------------------------------------------------------------------------
(* Semantic versions and the capability oracle.                            *)

VersionGte(v, w) ==
  \/ v[1] > w[1]
  \/ v[1] = w[1] /\ v[2] > w[2]
  \/ v[1] = w[1] /\ v[2] = w[2] /\ v[3] >= w[3]

(* toolkit.buildx.versionSatisfies('>=x.y.z') *)
BuildxSatisfies(e, w) == VersionGte(e.buildx, w)

(* toolkit.buildkit.versionSatisfies(inputs.builder, '>=x.y.z') *)
BuildkitSatisfies(e, w) == VersionGte(e.buildkit, w)

(* GitHub.context.payload.repository?.private ?? false *)
RepoPrivate(e) == e.repo = "private"

GitContext == <<"https://github.com/o/r.git", "#refs/heads/main">>

WorkflowRunURL == Str("https://github.com/o/r/actions/runs/1")

ImageIDFilePath == Str("/tmp/iidfile")

MetadataFilePath == Str("/tmp/metadata-file")

-----------------------------------------------------------------------------
(* Helpers of the toolkit's Build class, as called by context.ts.          *)

BoolTrue == {"1", "t", "T", "true", "TRUE", "True"}

BoolFalse == {"0", "f", "F", "false", "FALSE", "False"}

(* Build.hasAttestationType(name, attrs): some CSV field is type=<name>    *)
HasAttestationType(name, attrs) ==
  \E field \in {Split(attrs, ",")[i] : i \in 1..Len(Split(attrs, ","))} :
     LET kv == Split(field, "=")
     IN  Len(kv) >= 2 /\ kv[1] = Str("type") /\ kv[2] = Str(name)

(* one field of Build.resolveAttestationAttrs: a boolean becomes disabled= *)
ResolveAttestationAttr(field) ==
  IF Len(field) = 1 /\ field[1] \in BoolTrue THEN <<"disabled", "=", "false">>
  ELSE IF Len(field) = 1 /\ field[1] \in BoolFalse THEN <<"disabled", "=", "true">>
  ELSE field

(* Build.resolveAttestationAttrs(attrs) *)
ResolveAttestationAttrs(attrs) ==
  IF attrs = <<>> THEN <<>>
  ELSE LET fields == Split(attrs, ",")
       IN  Join([i \in 1..Len(fields) |-> ResolveAttestationAttr(fields[i])], ",")

(* Build.resolveProvenanceAttrs(input): adds builder-id unless present     *)
ResolveProvenanceAttrs(input) ==
  IF input = <<>> THEN <<"builder-id", "=">> \o WorkflowRunURL
  ELSE LET fields == Split(input, ",")
       IN  IF \E i \in 1..Len(fields) : Split(fields[i], "=")[1] = Str("builder-id")
           THEN input
           ELSE input \o <<",", "builder-id", "=">> \o WorkflowRunURL

(* Build.hasExporterType(name, exporters): one CSV record per exporter; a  *)
(* record of a single field without type= is a local exporter and ends the *)
(* scan.                                                                   *)
RECURSIVE HasExporterType(_, _)
HasExporterType(name, exporters) ==
  IF exporters = <<>> THEN FALSE
  ELSE LET record == Split(exporters[1], ",")
       IN  IF Len(record) = 1 /\ ~StartsWith(record[1], <<"type", "=">>)
           THEN name = "local"
           ELSE IF \E i \in 1..Len(record) :
                     LET kv == Split(record[i], "=")
                     IN  Len(kv) >= 2 /\ kv[1] = Str("type") /\ kv[2] = Str(name)
                THEN TRUE
                ELSE HasExporterType(name, Tail(exporters))

HasLocalExporter(exporters) == HasExporterType("local", exporters)

HasTarExporter(exporters) == HasExporterType("tar", exporters)

(* Build.hasDockerExporter(exporters, load): the image is to be loaded to  *)
(* the docker daemon, by the load input or by an exporter of type docker   *)
HasDockerExporter(exporters, load) ==
  load \/ HasExporterType("docker", exporters)

(* Build.hasGitAuthTokenSecret(secrets): some secret starts with           *)
(* GIT_AUTH_TOKEN=                                                         *)
HasGitAuthTokenSecret(secrets) ==
  \E i \in 1..Len(secrets) : StartsWith(secrets[i], <<"GIT_AUTH_TOKEN", "=">>)

(* key and value around the first "=" (indexOf / substring)                *)
SecretKey(kvp) ==
  IF \E i \in 1..Len(kvp) : kvp[i] = "=" THEN Split(kvp, "=")[1] ELSE <<>>

SecretValue(kvp) ==
  IF \E i \in 1..Len(kvp) : kvp[i] = "="
  THEN SubSeq(kvp, Len(Split(kvp, "=")[1]) + 2, Len(kvp))
  ELSE kvp

ValidSecret(kvp) == SecretKey(kvp) # <<>> /\ SecretValue(kvp) # <<>>

NotValid(kvp) == [ok |-> FALSE, v |-> kvp \o Str(" is not a valid secret")]

(* Build.resolveSecretEnv(kvp): id=<key>,env=<value>, or throws            *)
ResolveSecretEnv(kvp) ==
  IF ~ValidSecret(kvp) THEN NotValid(kvp)
  ELSE [ok |-> TRUE,
        v  |-> <<"id", "=">> \o SecretKey(kvp) \o <<",", "env", "=">> \o SecretValue(kvp)]

(* the temporary file a secret value is written to, named here after its   *)
(* content                                                                 *)
TmpFile(content) == Str("/tmp/secret:") \o content

(* Build.resolveSecretString(kvp): the value is written to a temporary     *)
(* file; id=<key>,src=<file>, or throws                                    *)
ResolveSecretString(kvp) ==
  IF ~ValidSecret(kvp) THEN NotValid(kvp)
  ELSE [ok |-> TRUE,
        v  |-> <<"id", "=">> \o SecretKey(kvp) \o <<",", "src", "=">>
                 \o TmpFile(SecretValue(kvp))]

(* Build.resolveSecretFile(kvp): as resolveSecretString, and throws when   *)
(* the file named by the value does not exist                              *)
ResolveSecretFile(kvp, e) ==
  IF ~ValidSecret(kvp) THEN NotValid(kvp)
  ELSE IF SecretValue(kvp) \notin e.files
  THEN [ok |-> FALSE, v |-> Str("secret file ") \o SecretValue(kvp) \o Str(" not found")]
  ELSE [ok |-> TRUE,
        v  |-> <<"id", "=">> \o SecretKey(kvp) \o <<",", "src", "=">>
                 \o TmpFile(Str("content of ") \o SecretValue(kvp))]

-----------------------------------------------------------------------------
(* The pieces of getBuildArgs, getAttestArgs and getCommonArgs.            *)

(* a variant whose last branch tests the wrong type                        *)
AttestListArgWrongType(attest, pSet, sSet) ==
  IF ~HasAttestationType("provenance", attest) /\ ~HasAttestationType("sbom", attest)
  THEN <<Str("--attest"), ResolveAttestationAttrs(attest)>>
  ELSE IF ~pSet /\ HasAttestationType("provenance", attest)
  THEN <<Str("--attest"), ResolveProvenanceAttrs(attest)>>
  ELSE IF ~sSet /\ HasAttestationType("provenance", attest)
  THEN <<Str("--attest"), attest>>
  ELSE <<>>

(* one turn of the second loop of getAttestArgs over inputs.attests        *)
AttestListArg(attest, pSet, sSet) ==
  IF ~HasAttestationType("provenance", attest) /\ ~HasAttestationType("sbom", attest)
  THEN <<Str("--attest"), ResolveAttestationAttrs(attest)>>
  ELSE IF ~pSet /\ HasAttestationType("provenance", attest)
  THEN <<Str("--attest"), ResolveProvenanceAttrs(attest)>>
  ELSE IF ~sSet /\ HasAttestationType("sbom", attest)
  THEN <<Str("--attest"), attest>>
  ELSE <<>>

(* the explicit provenance flag                                            *)
ExplicitProvenanceArg(inp) ==
  <<Str("--attest"),
    ResolveAttestationAttrs(<<"type", "=", "provenance", ",">> \o inp.provenance)>>

(* a variant that takes an unknown visibility for private                  *)
DefaultProvenanceArgUnknownPrivate(inp, e) ==
  IF e.repo # "public"
  THEN <<Str("--attest"),
         <<"type", "=", "provenance", ",">>
           \o ResolveProvenanceAttrs(<<"mode", "=", "min", ",", "inline-only", "=", "true">>)>>
  ELSE <<Str("--attest"),
         <<"type", "=", "provenance", ",">>
           \o ResolveProvenanceAttrs(<<"mode", "=", "max">>)>>

(* the default provenance flag, by the visibility of the repository        *)
DefaultProvenanceArg(inp, e) ==
  IF RepoPrivate(e)
  THEN <<Str("--attest"),
         <<"type", "=", "provenance", ",">>
           \o ResolveProvenanceAttrs(<<"mode", "=", "min", ",", "inline-only", "=", "true">>)>>
  ELSE <<Str("--attest"),
         <<"type", "=", "provenance", ",">>
           \o ResolveProvenanceAttrs(<<"mode", "=", "max">>)>>

(* the explicit sbom flag                                                  *)
SbomArg(inp) ==
  IF Truthy(inp.sbom)
  THEN <<Str("--attest"), ResolveAttestationAttrs(<<"type", "=", "sbom", ",">> \o inp.sbom)>>
  ELSE <<>>

AnnotationsWarning ==
  Str("Annotations are only supported by buildx >= 0.12.0; the input 'annotations' is ignored.")

BuildContextsWarning ==
  Str("Build contexts are only supported by buildx >= 0.8.0; the input 'build-contexts' is ignored.")

AttestationsWarning ==
  Str("Attestations are only supported by buildx >= 0.10.0; the inputs 'attests', 'provenance' and 'sbom' are ignored.")

AnnotationsSupported(e) == BuildxSatisfies(e, <<0, 12, 0>>)

(* a variant gated on the annotations' version                             *)
BuildContextsSupportedWrongGate(e) == BuildxSatisfies(e, <<0, 12, 0>>)

BuildContextsSupported(e) == BuildxSatisfies(e, <<0, 8, 0>>)

(* a variant gated on the buildkit version                                 *)
AttestationsSupportedBackend(e) == BuildkitSatisfies(e, <<0, 10, 0>>)

AttestationsSupported(e) == BuildxSatisfies(e, <<0, 10, 0>>)

(* a variant that emits --metadata-file whatever the buildx version        *)
MetadataFileAlways(e) == TRUE

MetadataFileSupported(e) == BuildxSatisfies(e, <<0, 6, 0>>)

(* a variant that forgets the tar exporter                                 *)
NoLocalOrTarExporterNoTar(inp) == ~HasLocalExporter(inp.outputs)

NoLocalOrTarExporter(inp) ==
  ~HasLocalExporter(inp.outputs) /\ ~HasTarExporter(inp.outputs)

IidfileArgs == <<Str("--iidfile"), ImageIDFilePath>>

AllowArgs(inp) ==
  IF Len(inp.allow) > 0 THEN <<Str("--allow"), Join(inp.allow, ",")>> ELSE <<>>

(* if (inputs.x) args.push(flag, inputs.x)                                 *)
FlagIf(flag, value) == IF Truthy(value) THEN <<Str(flag), value>> ELSE <<>>

PlatformArgs(inp) ==
  IF Len(inp.platforms) > 0 THEN <<Str("--platform"), Join(inp.platforms, ",")>> ELSE <<>>

(* a variant that wants the context to be the default context itself      *)
GitAuthTokenArgsExactContext(inp, ctx) ==
  IF /\ Truthy(inp.githubToken)
     /\ ~HasGitAuthTokenSecret(inp.secrets)
     /\ ctx = GitContext
  THEN <<Str("--secret"),
         ResolveSecretString(<<"GIT_AUTH_TOKEN", "=">> \o inp.githubToken).v>>
  ELSE <<>>

GitAuthTokenArgs(inp, ctx) ==
  IF /\ Truthy(inp.githubToken)
     /\ ~HasGitAuthTokenSecret(inp.secrets)
     /\ StartsWith(ctx, GitContext)
  THEN <<Str("--secret"),
         ResolveSecretString(<<"GIT_AUTH_TOKEN", "=">> \o inp.githubToken).v>>
  ELSE <<>>

(* a variant that pushes the value before the flag                         *)
FlagPairSwapped(flag, entry) == <<entry, Str(flag)>>

(* args.push(flag, entry) in the callback of a loop over a list input      *)
FlagPair(flag, entry) == <<Str(flag), entry>>

(* a variant without the try/catch: what the resolver gave is pushed       *)
SecretPushUnguarded(result) == <<Str("--secret"), result.v>>

(* try { args.push('--secret', resolve(entry)) } catch (err) {...}: the    *)
(* push happens when the resolver returns                                  *)
SecretPush(result) == IF result.ok THEN <<Str("--secret"), result.v>> ELSE <<>>

(* ... catch (err) { core.warning(err.message) }                           *)
SecretWarning(result) == IF result.ok THEN <<>> ELSE <<result.v>>

SecretEnvResults(inp) == [i \in 1..Len(inp.secretEnvs) |-> ResolveSecretEnv(inp.secretEnvs[i])]

SecretResults(inp) == [i \in 1..Len(inp.secrets) |-> ResolveSecretString(inp.secrets[i])]

SecretFileResults(inp, e) ==
  [i \in 1..Len(inp.secretFiles) |-> ResolveSecretFile(inp.secretFiles[i], e)]

(* handlebars.compile(inputs.context)({defaultContext: gitContext()})      *)
ExpandContext(raw) ==
  Flatten([i \in 1..Len(raw) |->
             IF raw[i] = "{{defaultContext}}" THEN GitContext ELSE <<raw[i]>>])

-----------------------------------------------------------------------------
(* Util.asyncForEach(list, callback) is `for (...) await callback(...)`.   *)
(* The call runs the callback on the first entry at once; each later entry *)
(* is visited in a turn of its own, and the caller goes on in a turn after *)
(* the last.  pc names the loop the call is suspended in and index counts  *)
(* the entries visited.                                                    *)

(* the list each loop of getBuildArgs and getAttestArgs runs over; empty   *)
(* where the call is suspended at something else                           *)
LoopList(p, inp) ==
  CASE p = "addHosts" -> inp.addHosts
    [] p = "annotations" -> inp.annotations
    [] p = "buildArgs" -> inp.buildArgs
    [] p = "buildContexts" -> inp.buildContexts
    [] p = "cacheFrom" -> inp.cacheFrom
    [] p = "cacheTo" -> inp.cacheTo
    [] p = "secretEnvs" -> inp.secretEnvs
    [] p = "labels" -> inp.labels
    [] p = "noCacheFilters" -> inp.noCacheFilters
    [] p = "outputs" -> inp.outputs
    [] p = "attestScan" -> inp.attests
    [] p = "attestList" -> inp.attests
    [] p = "secrets" -> inp.secrets
    [] p = "secretFiles" -> inp.secretFiles
    [] p = "ssh" -> inp.ssh
    [] p = "tags" -> inp.tags
    [] p = "ulimit" -> inp.ulimit
    [] OTHER -> <<>>

(* what the callback of a loop of getBuildArgs pushes for one entry        *)
CallbackArgs(p, x, e) ==
  CASE p = "addHosts" -> FlagPair("--add-host", x)
    [] p = "annotations" -> FlagPair("--annotation", x)
    [] p = "buildArgs" -> FlagPair("--build-arg", x)
    [] p = "buildContexts" -> FlagPair("--build-context", x)
    [] p = "cacheFrom" -> FlagPair("--cache-from", x)
    [] p = "cacheTo" -> FlagPair("--cache-to", x)
    [] p = "secretEnvs" -> SecretPush(ResolveSecretEnv(x))
    [] p = "labels" -> FlagPair("--label", x)
    [] p = "noCacheFilters" -> FlagPair("--no-cache-filter", x)
    [] p = "outputs" -> FlagPair("--output", x)
    [] p = "secrets" -> SecretPush(ResolveSecretString(x))
    [] p = "secretFiles" -> SecretPush(ResolveSecretFile(x, e))
    [] p = "ssh" -> FlagPair("--ssh", x)
    [] p = "tags" -> FlagPair("--tag", x)
    [] p = "ulimit" -> FlagPair("--ulimit", x)
    [] OTHER -> <<>>

(* and the warning it gives                                                *)
CallbackWarnings(p, x, e) ==
  CASE p = "secretEnvs" -> SecretWarning(ResolveSecretEnv(x))
    [] p = "secrets" -> SecretWarning(ResolveSecretString(x))
    [] p = "secretFiles" -> SecretWarning(ResolveSecretFile(x, e))
    [] OTHER -> <<>>

(* the call of asyncForEach: the callback on the first entry, if any       *)
StartIndex(p, inp) == IF LoopList(p, inp) # <<>> THEN 1 ELSE 0

StartArgs(p, inp, e) ==
  IF LoopList(p, inp) # <<>> THEN CallbackArgs(p, LoopList(p, inp)[1], e) ELSE <<>>

StartWarnings(p, inp, e) ==
  IF LoopList(p, inp) # <<>> THEN CallbackWarnings(p, LoopList(p, inp)[1], e) ELSE <<>>

(* the same for the second loop of getAttestArgs                           *)
StartAttestList(inp, pSet, sSet) ==
  IF inp.attests # <<>> THEN AttestListArg(inp.attests[1], pSet, sSet) ELSE <<>>

-----------------------------------------------------------------------------
(* Values of the Inputs record and of the environment.                     *)

(* a value of the Inputs interface: strings and lists empty, booleans      *)
(* false, the context the default of line 57.  (getInputs itself throws    *)
(* when a boolean input is not set; the record is what it returns when     *)
(* the four booleans are given as false and nothing else is given.)        *)
BaseInputs ==
  [addHosts |-> <<>>, allow |-> <<>>, annotations |-> <<>>, attests |-> <<>>,
   buildArgs |-> <<>>, buildContexts |-> <<>>, builder |-> <<>>, cacheFrom |-> <<>>,
   cacheTo |-> <<>>, cgroupParent |-> <<>>, context |-> GitContext, file |-> <<>>,
   labels |-> <<>>, load |-> FALSE, network |-> <<>>, noCache |-> FALSE,
   noCacheFilters |-> <<>>, outputs |-> <<>>, platforms |-> <<Str("linux/amd64")>>,
   provenance |-> <<>>, pull |-> FALSE, push |-> FALSE, sbom |-> <<>>, secrets |-> <<>>,
   secretEnvs |-> <<>>, secretFiles |-> <<>>, shmSize |-> <<>>, ssh |-> <<>>,
   tags |-> <<>>, target |-> <<>>, ulimit |-> <<>>, githubToken |-> <<>>]

DefaultEnv ==
  [buildx |-> <<0, 12, 0>>, buildkit |-> <<0, 12, 0>>, repo |-> "public",
   files |-> {Str("/run/exists")}]

ProvenanceValues == {<<>>, <<"false">>, <<"mode", "=", "max">>}

SbomValues == {<<>>, <<"true">>}

(* entries of the attests input that name one type                         *)
AttestEntries ==
  { <<"type", "=", "provenance", ",", "mode", "=", "min">>,
    <<"type", "=", "provenance", ",", "builder-id", "=", "me">>,
    <<"type", "=", "sbom", ",", "generator", "=", "image">>,
    <<"type", "=", "vex", ",", "true">> }

(* and one that names two                                                  *)
AttestEntriesAny ==
  AttestEntries \cup { <<"type", "=", "sbom", ",", "type", "=", "provenance">> }

OutputValues ==
  { <<>>,
    << <<"type", "=", "docker">> >>,
    << <<"type", "=", "local", ",", "dest", "=", "./out">> >>,
    << <<"type", "=", "tar", ",", "dest", "=", "/tmp/image.tar">> >>,
    << <<"./out">> >>,
    << <<"type", "=", "registry">>, <<"type", "=", "tar", ",", "dest", "=", "/tmp/image.tar">> >> }

(* outputs with and without an exporter of type docker                     *)
ProvenanceOutputValues ==
  { <<>>,
    << <<"type", "=", "docker">> >>,
    << <<"type", "=", "registry">> >>,
    << <<"type", "=", "registry">>, <<"type", "=", "docker", ",", "name", "=", "app">> >> }

ContextValues ==
  { GitContext,
    <<"{{defaultContext}}">>,
    <<"{{defaultContext}}", ":docker">>,
    <<".">>,
    <<"https://github.com/other/repo.git", "#refs/heads/main">> }

SecretEnvEntries == { <<"ENVKEY", "=", "ENVVAR">>, <<"NOVALUE">> }

SecretEntries == { <<"KEY", "=", "value">>, <<"=", "nokey">> }

SecretFileEntries ==
  { <<"GIT_AUTH_TOKEN", "=", "/run/exists">>, <<"FILE", "=", "/run/missing">> }

(* the locals of getArgs, getBuildArgs and getAttestArgs before the call   *)
Start ==
  /\ pc = "getArgs"
  /\ context = <<>>
  /\ buildArgs = <<>>
  /\ attestArgs = <<>>
  /\ hasAttestProvenance = FALSE
  /\ provenanceSet = FALSE
  /\ sbomSet = FALSE
  /\ index = 0
  /\ commonArgs = <<>>
  /\ args = <<>>
  /\ warnings = <<>>

(* the three attestation inputs and the buildkit version                   *)
InitAttest ==
  /\ Start
  /\ \E p \in ProvenanceValues, sb \in SbomValues,
        at \in SeqsUpTo(AttestEntries, MaxAttests) :
       inputs = [BaseInputs EXCEPT !.provenance = p, !.sbom = sb, !.attests = at]
  /\ \E bv \in {<<0, 10, 5>>, <<0, 11, 0>>} :
       env = [DefaultEnv EXCEPT !.buildkit = bv]

(* the same with entries of attests that name two types at once            *)
InitAttestAny ==
  /\ Start
  /\ \E p \in ProvenanceValues, sb \in SbomValues,
        at \in SeqsUpTo(AttestEntriesAny, MaxAttests) :
       inputs = [BaseInputs EXCEPT !.provenance = p, !.sbom = sb, !.attests = at]
  /\ \E bv \in {<<0, 10, 5>>, <<0, 11, 0>>}, r \in {"private", "public"} :
       env = [DefaultEnv EXCEPT !.buildkit = bv, !.repo = r]

(* what the default provenance depends on                                  *)
InitProvenance ==
  /\ Start
  /\ \E p \in ProvenanceValues, at \in SeqsUpTo(AttestEntries, MaxAttests),
        o \in ProvenanceOutputValues, l \in BOOLEAN :
       inputs = [BaseInputs EXCEPT !.provenance = p, !.attests = at,
                                   !.outputs = o, !.load = l]
  /\ \E bv \in {<<0, 9, 3>>, <<0, 10, 5>>, <<0, 11, 0>>},
        r \in {"private", "public", "unknown"} :
       env = [DefaultEnv EXCEPT !.buildkit = bv, !.repo = r]

(* the attestation inputs on both sides of the gate of line 153            *)
InitAttestGate ==
  /\ Start
  /\ \E p \in ProvenanceValues, sb \in SbomValues,
        at \in SeqsUpTo(AttestEntries, MaxAttests) :
       inputs = [BaseInputs EXCEPT !.provenance = p, !.sbom = sb, !.attests = at,
                                   !.secrets = << <<"KEY", "=", "value">> >>]
  /\ \E fv \in {<<0, 9, 1>>, <<0, 10, 0>>, <<0, 12, 0>>},
        bv \in {<<0, 9, 3>>, <<0, 11, 0>>} :
       env = [DefaultEnv EXCEPT !.buildx = fv, !.buildkit = bv]

(* the three kinds of secrets                                              *)
InitSecrets ==
  /\ Start
  /\ \E se \in SeqsUpTo(SecretEnvEntries, MaxSecrets),
        sc \in SeqsUpTo(SecretEntries, MaxSecrets),
        sf \in SeqsUpTo(SecretFileEntries, MaxSecrets),
        tok \in {<<>>, Str("ghs_token")} :
       inputs = [BaseInputs EXCEPT !.secretEnvs = se, !.secrets = sc, !.secretFiles = sf,
                                   !.githubToken = tok]
  /\ env = DefaultEnv

(* the token, the context and the secrets that name GIT_AUTH_TOKEN         *)
InitGitToken ==
  /\ Start
  /\ \E sc \in SeqsUpTo(SecretEntries \cup {<<"GIT_AUTH_TOKEN", "=", "mine">>}, MaxSecrets),
        se \in {<<>>, << <<"GIT_AUTH_TOKEN", "=", "ENVVAR">> >>},
        sf \in {<<>>, << <<"GIT_AUTH_TOKEN", "=", "/run/exists">> >>},
        tok \in {<<>>, Str("ghs_token")}, c \in ContextValues :
       inputs = [BaseInputs EXCEPT !.secretEnvs = se, !.secrets = sc, !.secretFiles = sf,
                                   !.githubToken = tok, !.context = c]
  /\ env = DefaultEnv

(* the plain repeated lists                                                *)
InitLists ==
  /\ Start
  /\ \/ \E h \in SeqsUpTo({Str("h1:10.0.0.1"), Str("h2:10.0.0.2")}, MaxList),
           lb \in SeqsUpTo({<<"l1", "=", "x">>, <<"l2", "=", "y">>}, MaxList),
           sh \in SeqsUpTo({Str("default"), <<"key", "=", "/id_rsa">>}, MaxList) :
          inputs = [BaseInputs EXCEPT !.addHosts = h, !.labels = lb, !.ssh = sh]
     \/ \E ba \in SeqsUpTo({<<"A", "=", "1">>, <<"B", "=", "2">>}, MaxList),
           tg \in SeqsUpTo({Str("user/app:latest"), Str("user/app:1.0.0")}, MaxList),
           ul \in SeqsUpTo({<<"nofile", "=", "1024:1024">>, <<"nproc", "=", "3">>}, MaxList) :
          inputs = [BaseInputs EXCEPT !.buildArgs = ba, !.tags = tg, !.ulimit = ul]
  /\ env = DefaultEnv

(* the version-gated inputs and the image-ID file                          *)
InitGates ==
  /\ Start
  /\ \E an \in SeqsUpTo({<<"index:k1", "=", "v1">>, <<"k2", "=", "v2">>}, MaxList),
        bc \in SeqsUpTo({<<"alpine", "=", "docker-image://alpine">>, <<"src", "=", "./src">>}, MaxList),
        o \in OutputValues,
        pl \in {<<>>, <<Str("linux/amd64"), Str("linux/arm64")>>} :
       inputs = [BaseInputs EXCEPT !.annotations = an, !.buildContexts = bc,
                                   !.outputs = o, !.platforms = pl]
  /\ \E fv \in {<<0, 4, 1>>, <<0, 4, 2>>, <<0, 7, 9>>, <<0, 8, 0>>, <<0, 11, 9>>, <<0, 12, 0>>} :
       env = [DefaultEnv EXCEPT !.buildx = fv]

(* the common flags, with or without the single-valued build flags         *)
InitCommon ==
  /\ Start
  /\ \E b \in {<<>>, Str("mybuilder")}, l \in BOOLEAN, n \in {<<>>, Str("host")},
        nc \in BOOLEAN, pu \in BOOLEAN, ps \in BOOLEAN, x \in BOOLEAN,
        c \in {GitContext, <<"{{defaultContext}}", ":docker">>, <<".">>} :
       inputs = [BaseInputs EXCEPT
                   !.builder = b, !.load = l, !.network = n, !.noCache = nc,
                   !.pull = pu, !.push = ps, !.context = c,
                   !.allow = IF x THEN <<Str("network.host"), Str("security.insecure")>> ELSE <<>>,
                   !.cacheFrom = IF x THEN << <<"type", "=", "gha">> >> ELSE <<>>,
                   !.cacheTo = IF x THEN << <<"type", "=", "gha", ",", "mode", "=", "max">> >> ELSE <<>>,
                   !.cgroupParent = IF x THEN Str("foo") ELSE <<>>,
                   !.file = IF x THEN Str("./Dockerfile") ELSE <<>>,
                   !.noCacheFilters = IF x THEN <<Str("stage1")>> ELSE <<>>,
                   !.shmSize = IF x THEN Str("2g") ELSE <<>>,
                   !.target = IF x THEN Str("prod") ELSE <<>>,
                   !.tags = IF x THEN <<Str("user/app:latest"), Str("user/app:1.0.0")>> ELSE <<>>,
                   !.ulimit = IF x THEN << <<"nofile", "=", "1024:1024">> >> ELSE <<>>]
  /\ \E fv \in {<<0, 5, 9>>, <<0, 6, 0>>, <<0, 12, 0>>} :
       env = [DefaultEnv EXCEPT !.buildx = fv]

-----------------------------------------------------------------------------
(* getArgs.  Every `await` of getArgs, getBuildArgs, getAttestArgs and     *)
(* getCommonArgs gives the event loop a turn, so an action is the code     *)
(* that runs from one await to the next, and pc names the await the call   *)
(* is suspended at.  Nothing in context.ts writes to inputs, so no action  *)
(* changes it.                                                             *)

attestLocals == <<attestArgs, hasAttestProvenance, provenanceSet, sbomSet>>

(* a turn of getBuildArgs: the loop or the version test it was suspended   *)
(* at is over, tokens are pushed and warnings given, and the call suspends *)
(* again at `to`, in the loop of that name if it is one                    *)
Segment(to, tokens, warns) ==
  /\ index = Len(LoopList(pc, inputs))
  /\ pc' = to
  /\ index' = StartIndex(to, inputs)
  /\ buildArgs' = buildArgs \o tokens \o StartArgs(to, inputs, env)
  /\ warnings' = warnings \o warns \o StartWarnings(to, inputs, env)
  /\ UNCHANGED <<inputs, env, context, attestLocals, commonArgs, args>>

(* asyncForEach resumes after the await of a callback and visits the next  *)
(* entry of its list                                                       *)
AsyncForEachNext ==
  /\ index < Len(LoopList(pc, inputs))
  /\ index' = index + 1
  /\ LET x == LoopList(pc, inputs)[index + 1]
     IN  /\ buildArgs' = buildArgs \o CallbackArgs(pc, x, env)
         /\ warnings' = warnings \o CallbackWarnings(pc, x, env)
         /\ hasAttestProvenance' =
              IF pc = "attestScan"
              THEN hasAttestProvenance \/ HasAttestationType("provenance", x)
              ELSE hasAttestProvenance
         /\ attestArgs' =
              IF pc = "attestList"
              THEN attestArgs \o AttestListArg(x, provenanceSet, sbomSet)
              ELSE attestArgs
  /\ UNCHANGED <<inputs, env, pc, context, provenanceSet, sbomSet, commonArgs, args>>

(* lines 83-98: the context is compiled, getBuildArgs is entered and       *)
(* starts the loop over addHosts                                           *)
Enter ==
  /\ pc = "getArgs"
  /\ context' = ExpandContext(inputs.context)
  /\ buildArgs' = <<Str("build")>> \o StartArgs("addHosts", inputs, env)
  /\ index' = StartIndex("addHosts", inputs)
  /\ pc' = "addHosts"
  /\ UNCHANGED <<inputs, env, attestLocals, commonArgs, args, warnings>>

(* lines 99-102, up to the await of versionSatisfies('>=0.12.0')           *)
AfterAddHosts ==
  /\ pc = "addHosts"
  /\ Segment("v0.12.0", AllowArgs(inputs), <<>>)

(* lines 102-109: the annotations loop is started, or the warning is       *)
(* given and the buildArgs loop is started                                 *)
AfterV0120 ==
  /\ pc = "v0.12.0"
  /\ IF AnnotationsSupported(env)
     THEN Segment("annotations", <<>>, <<>>)
     ELSE Segment("buildArgs", <<>>,
                  IF Len(inputs.annotations) > 0 THEN <<AnnotationsWarning>> ELSE <<>>)

(* lines 109-111 after the annotations loop                                *)
AfterAnnotations ==
  /\ pc = "annotations"
  /\ Segment("buildArgs", <<>>, <<>>)

(* line 112, up to the await of versionSatisfies('>=0.8.0')                *)
AfterBuildArgs ==
  /\ pc = "buildArgs"
  /\ Segment("v0.8.0", <<>>, <<>>)

(* lines 112-121                                                           *)
AfterV080 ==
  /\ pc = "v0.8.0"
  /\ IF BuildContextsSupported(env)
     THEN Segment("buildContexts", <<>>, <<>>)
     ELSE Segment("cacheFrom", <<>>,
                  IF Len(inputs.buildContexts) > 0 THEN <<BuildContextsWarning>> ELSE <<>>)

(* lines 119-121 after the build-contexts loop                             *)
AfterBuildContexts ==
  /\ pc = "buildContexts"
  /\ Segment("cacheFrom", <<>>, <<>>)

(* lines 122-124                                                           *)
AfterCacheFrom ==
  /\ pc = "cacheFrom"
  /\ Segment("cacheTo", <<>>, <<>>)

(* lines 125-134: cgroup-parent, and the loop over secretEnvs is started   *)
AfterCacheTo ==
  /\ pc = "cacheTo"
  /\ Segment("secretEnvs", FlagIf("--cgroup-parent", inputs.cgroupParent), <<>>)

(* lines 135-143: --file, then the test of line 138, which awaits          *)
(* versionSatisfies('>=0.4.2') only when there is no local or tar exporter *)
(* and there are platforms; without the await --iidfile is decided and the *)
(* labels loop is started                                                  *)
AfterSecretEnvs ==
  /\ pc = "secretEnvs"
  /\ IF NoLocalOrTarExporter(inputs) /\ Len(inputs.platforms) # 0
     THEN Segment("v0.4.2", FlagIf("--file", inputs.file), <<>>)
     ELSE Segment("labels",
                  FlagIf("--file", inputs.file)
                    \o (IF NoLocalOrTarExporter(inputs) THEN IidfileArgs ELSE <<>>),
                  <<>>)

(* lines 138-143 after the await                                           *)
AfterV042 ==
  /\ pc = "v0.4.2"
  /\ Segment("labels",
            IF BuildxSatisfies(env, <<0, 4, 2>>) THEN IidfileArgs ELSE <<>>, <<>>)

(* lines 144-146                                                           *)
AfterLabels ==
  /\ pc = "labels"
  /\ Segment("noCacheFilters", <<>>, <<>>)

(* lines 147-149                                                           *)
AfterNoCacheFilters ==
  /\ pc = "noCacheFilters"
  /\ Segment("outputs", <<>>, <<>>)

(* lines 150-153, up to the await of versionSatisfies('>=0.10.0')          *)
AfterOutputs ==
  /\ pc = "outputs"
  /\ Segment("v0.10.0", PlatformArgs(inputs), <<>>)

(* lines 153-164: getAttestArgs is entered and starts its first loop       *)
(* (lines 219-228), or the warning is given and the secrets loop is        *)
(* started                                                                 *)
AfterV0100 ==
  /\ pc = "v0.10.0"
  /\ IF AttestationsSupported(env)
     THEN /\ attestArgs' = <<>>
          /\ hasAttestProvenance' =
               (inputs.attests # <<>> /\ HasAttestationType("provenance", inputs.attests[1]))
          /\ index' = StartIndex("attestScan", inputs)
          /\ pc' = "attestScan"
          /\ UNCHANGED <<inputs, env, context, buildArgs, provenanceSet, sbomSet, commonArgs,
                         args, warnings>>
     ELSE Segment("secrets", <<>>, <<AttestationsWarning>>)

(* lines 230-255 after the first loop: the explicit provenance, or the     *)
(* await of the buildkit version at line 235; without the await the sbom   *)
(* flag follows and the second loop is started                             *)
AfterAttestScan ==
  /\ pc = "attestScan"
  /\ index = Len(inputs.attests)
  /\ IF Truthy(inputs.provenance)
     THEN /\ attestArgs' = attestArgs \o ExplicitProvenanceArg(inputs) \o SbomArg(inputs)
                             \o StartAttestList(inputs, TRUE, Truthy(inputs.sbom))
          /\ provenanceSet' = TRUE
          /\ sbomSet' = Truthy(inputs.sbom)
          /\ index' = StartIndex("attestList", inputs)
          /\ pc' = "attestList"
     ELSE IF ~hasAttestProvenance
     THEN /\ provenanceSet' = FALSE
          /\ sbomSet' = FALSE
          /\ index' = 0
          /\ pc' = "buildkit"
          /\ UNCHANGED attestArgs
     ELSE /\ attestArgs' = attestArgs \o SbomArg(inputs)
                             \o StartAttestList(inputs, FALSE, Truthy(inputs.sbom))
          /\ provenanceSet' = FALSE
          /\ sbomSet' = Truthy(inputs.sbom)
          /\ index' = StartIndex("attestList", inputs)
          /\ pc' = "attestList"
  /\ UNCHANGED <<inputs, env, context, buildArgs, hasAttestProvenance, commonArgs, args,
                 warnings>>

(* lines 235-255 after the await: the default provenance, the sbom flag,   *)
(* and the second loop is started                                          *)
AfterBuildkit ==
  /\ pc = "buildkit"
  /\ attestArgs' =
       attestArgs
         \o (IF /\ BuildkitSatisfies(env, <<0, 11, 0>>)
                /\ ~HasDockerExporter(inputs.outputs, inputs.load)
             THEN DefaultProvenanceArg(inputs, env) ELSE <<>>)
         \o SbomArg(inputs)
         \o StartAttestList(inputs, provenanceSet, Truthy(inputs.sbom))
  /\ sbomSet' = Truthy(inputs.sbom)
  /\ index' = StartIndex("attestList", inputs)
  /\ pc' = "attestList"
  /\ UNCHANGED <<inputs, env, context, buildArgs, hasAttestProvenance, provenanceSet,
                 commonArgs, args, warnings>>

(* line 265 after the second loop: getAttestArgs returns                   *)
AfterAttestList ==
  /\ pc = "attestList"
  /\ index = Len(inputs.attests)
  /\ index' = 0
  /\ pc' = "getAttestArgs"
  /\ UNCHANGED <<inputs, env, context, buildArgs, attestLocals, commonArgs, args, warnings>>

(* lines 154-164: the flags of getAttestArgs are pushed and the secrets    *)
(* loop is started                                                         *)
AfterGetAttestArgs ==
  /\ pc = "getAttestArgs"
  /\ Segment("secrets", attestArgs, <<>>)

(* lines 165-171                                                           *)
AfterSecrets ==
  /\ pc = "secrets"
  /\ Segment("secretFiles", <<>>, <<>>)

(* lines 172-180: the git auth token, shm-size, and the ssh loop is        *)
(* started                                                                 *)
AfterSecretFiles ==
  /\ pc = "secretFiles"
  /\ Segment("ssh",
            GitAuthTokenArgs(inputs, context) \o FlagIf("--shm-size", inputs.shmSize), <<>>)

(* lines 181-183                                                           *)
AfterSsh ==
  /\ pc = "ssh"
  /\ Segment("tags", <<>>, <<>>)

(* lines 184-189                                                           *)
AfterTags ==
  /\ pc = "tags"
  /\ Segment("ulimit", FlagIf("--target", inputs.target), <<>>)

(* line 190: getBuildArgs returns                                          *)
AfterUlimit ==
  /\ pc = "ulimit"
  /\ Segment("getBuildArgs", <<>>, <<>>)

(* lines 89 and 193-201: getCommonArgs is entered, up to the await of      *)
(* versionSatisfies('>=0.6.0')                                             *)
AfterGetBuildArgs ==
  /\ pc = "getBuildArgs"
  /\ commonArgs' = FlagIf("--builder", inputs.builder)
                     \o (IF inputs.load THEN <<Str("--load")>> ELSE <<>>)
  /\ pc' = "v0.6.0"
  /\ UNCHANGED <<inputs, env, context, buildArgs, attestLocals, index, args, warnings>>

(* lines 201-216                                                           *)
AfterV060 ==
  /\ pc = "v0.6.0"
  /\ commonArgs' =
       commonArgs
         \o (IF MetadataFileSupported(env)
             THEN <<Str("--metadata-file"), MetadataFilePath>> ELSE <<>>)
         \o FlagIf("--network", inputs.network)
         \o (IF inputs.noCache THEN <<Str("--no-cache")>> ELSE <<>>)
         \o (IF inputs.pull THEN <<Str("--pull")>> ELSE <<>>)
         \o (IF inputs.push THEN <<Str("--push")>> ELSE <<>>)
  /\ pc' = "getCommonArgs"
  /\ UNCHANGED <<inputs, env, context, buildArgs, attestLocals, index, args, warnings>>

(* lines 87-91: return [...buildArgs, ...commonArgs, context]              *)
Return ==
  /\ pc = "getCommonArgs"
  /\ args' = buildArgs \o commonArgs \o <<context>>
  /\ pc' = "done"
  /\ UNCHANGED <<inputs, env, context, buildArgs, attestLocals, index, commonArgs, warnings>>

Next ==
  \/ Enter \/ AsyncForEachNext \/ AfterAddHosts \/ AfterV0120 \/ AfterAnnotations
  \/ AfterBuildArgs \/ AfterV080 \/ AfterBuildContexts \/ AfterCacheFrom
  \/ AfterCacheTo \/ AfterSecretEnvs \/ AfterV042 \/ AfterLabels
  \/ AfterNoCacheFilters \/ AfterOutputs \/ AfterV0100 \/ AfterAttestScan
  \/ AfterBuildkit \/ AfterAttestList \/ AfterGetAttestArgs \/ AfterSecrets
  \/ AfterSecretFiles \/ AfterSsh \/ AfterTags \/ AfterUlimit \/ AfterGetBuildArgs
  \/ AfterV060 \/ Return

SpecAttest == InitAttest /\ [][Next]_vars

SpecAttestAny == InitAttestAny /\ [][Next]_vars

SpecProvenance == InitProvenance /\ [][Next]_vars

SpecAttestGate == InitAttestGate /\ [][Next]_vars

SpecSecrets == InitSecrets /\ [][Next]_vars

SpecGitToken == InitGitToken /\ [][Next]_vars

SpecLists == InitLists /\ [][Next]_vars

SpecGates == InitGates /\ [][Next]_vars

SpecCommon == InitCommon /\ [][Next]_vars

Done == pc = "done"

-----------------------------------------------------------------------------
(* Reading an argument list.                                               *)

(* the values that directly follow the occurrences of a flag, in order     *)
RECURSIVE ValuesOf(_, _)
ValuesOf(a, flag) ==
  IF Len(a) < 2 THEN <<>>
  ELSE IF a[1] = Str(flag) THEN <<a[2]>> \o ValuesOf(SubSeq(a, 3, Len(a)), flag)
  ELSE ValuesOf(Tail(a), flag)

Count(a, tok) == Cardinality({i \in 1..Len(a) : a[i] = tok})

CountType(a, name) ==
  Cardinality({i \in 1..Len(ValuesOf(a, "--attest")) :
                 HasAttestationType(name, ValuesOf(a, "--attest")[i])})

EntriesOfType(list, name) ==
  Cardinality({i \in 1..Len(list) : HasAttestationType(name, list[i])})

(* the attestation sub-builder runs: line 153 *)
SubBuilderRan == Done /\ VersionGte(env.buildx, <<0, 10, 0>>)

ExplicitProvenanceFlag ==
  ResolveAttestationAttrs(<<"type", "=", "provenance", ",">> \o inputs.provenance)

ExplicitSbomFlag ==
  ResolveAttestationAttrs(<<"type", "=", "sbom", ",">> \o inputs.sbom)

DefaultPrivateFlag ==
  <<"type", "=", "provenance", ",", "mode", "=", "min", ",", "inline-only", "=", "true",
    ",", "builder-id", "=">> \o WorkflowRunURL

DefaultMaxFlag ==
  <<"type", "=", "provenance", ",", "mode", "=", "max", ",", "builder-id", "=">>
    \o WorkflowRunURL

-----------------------------------------------------------------------------
(* C1: whenever the attestation sub-builder runs with a non-empty explicit *)
(* provenance input, the output has exactly one provenance --attest flag,  *)
(* it is the one built from the explicit value, and no provenance-typed    *)
(* entry of attests is emitted; the same for sbom.  Stated as the claim    *)
(* states it; the code violates it for an entry of attests that names      *)
(* both types.                                                             *)
C1_ExplicitWins ==
  SubBuilderRan =>
    /\ Truthy(inputs.provenance) =>
         /\ CountType(args, "provenance") = 1
         /\ \E i \in 1..Len(ValuesOf(args, "--attest")) :
              ValuesOf(args, "--attest")[i] = ExplicitProvenanceFlag
    /\ Truthy(inputs.sbom) =>
         /\ CountType(args, "sbom") = 1
         /\ \E i \in 1..Len(ValuesOf(args, "--attest")) :
              ValuesOf(args, "--attest")[i] = ExplicitSbomFlag

-----------------------------------------------------------------------------
(* an output spec names the docker exporter                                *)
RequestsDocker(outputs) ==
  \E i \in 1..Len(outputs) :
     \E j \in 1..Len(Split(outputs[i], ",")) :
        Split(outputs[i], ",")[j] = <<"type", "=", "docker">>

-----------------------------------------------------------------------------
(* C9 as stated: the attestation flags are gated on the backend (buildkit) *)
(* version >=0.10.0.                                                       *)
C9_BackendGate ==
  Done =>
    IF VersionGte(env.buildkit, <<0, 10, 0>>)
    THEN Count(warnings, AttestationsWarning) = 0
    ELSE Count(args, Str("--attest")) = 0 /\ Count(warnings, AttestationsWarning) = 1

(* C9 amended: the gate is the frontend (buildx) version >=0.10.0.  Below  *)
(* it the output has no --attest token and the warning is produced once;   *)
(* from it on the sub-builder's flags stand right after the --platform     *)
(* pair and right before the --secret flag of the first plain secret, and  *)
(* there is no such warning.                                               *)
C9_FrontendGate ==
  Done =>
    IF VersionGte(env.buildx, <<0, 10, 0>>)
    THEN LET att == attestArgs
             p == CHOOSE i \in 1..Len(args) : args[i] = Str("--platform")
         IN  /\ Count(warnings, AttestationsWarning) = 0
             /\ SubSeq(args, p + 2, p + 1 + Len(att)) = att
             /\ args[p + 2 + Len(att)] = Str("--secret")
             /\ Count(args, Str("--attest")) * 2 = Len(att)
    ELSE /\ Count(args, Str("--attest")) = 0
         /\ Count(warnings, AttestationsWarning) = 1

C9_Witness ==
  /\ Done
  /\ ~VersionGte(env.buildx, <<0, 10, 0>>)
  /\ VersionGte(env.buildkit, <<0, 10, 0>>)
  /\ Truthy(inputs.provenance)
  /\ inputs.attests # <<>>
  /\ warnings = <<AttestationsWarning>>

-----------------------------------------------------------------------------
(* C10 as stated: at most one provenance flag and at most one sbom flag,   *)
(* whatever the inputs.                                                    *)
C10_AtMostOnePerType ==
  SubBuilderRan => CountType(args, "provenance") <= 1 /\ CountType(args, "sbom") <= 1

(* C10 amended: the attests list is not de-duplicated.  With an empty      *)
(* explicit input of a type every entry of attests of that type is         *)
(* emitted, so the output has as many flags of the type as attests has     *)
(* entries of it (for provenance with no such entry: the default flag if   *)
(* it is injected, else none); when attests has no entry of a type the     *)
(* output has at most one flag of it.                                      *)
C10_ListNotDeduplicated ==
  SubBuilderRan =>
    LET np == EntriesOfType(inputs.attests, "provenance")
        ns == EntriesOfType(inputs.attests, "sbom")
    IN  /\ (inputs.provenance = <<>> /\ np > 0) => CountType(args, "provenance") = np
        /\ inputs.sbom = <<>> => CountType(args, "sbom") = ns
        /\ np = 0 => CountType(args, "provenance") <= 1
        /\ ns = 0 => CountType(args, "sbom") <= 1

C10_Witness ==
  /\ SubBuilderRan
  /\ inputs.provenance = <<>>
  /\ inputs.attests = << <<"type", "=", "provenance", ",", "mode", "=", "min">>,
                         <<"type", "=", "provenance", ",", "mode", "=", "min">> >>
  /\ CountType(args, "provenance") = 2

-----------------------------------------------------------------------------
(* The synthesized git-auth-token secret, as resolveSecretString builds it *)
SynthesizedSecret ==
  <<"id", "=", "GIT_AUTH_TOKEN", ",", "src", "=", "/tmp/secret:">> \o inputs.githubToken

SynthesizedCount == Count(ValuesOf(args, "--secret"), SynthesizedSecret)

SecretsEncodeToken ==
  \E i \in 1..Len(inputs.secrets) :
     Len(inputs.secrets[i]) >= 2 /\ inputs.secrets[i][1] = "GIT_AUTH_TOKEN"
       /\ inputs.secrets[i][2] = "="

(* C3 as stated: the synthesized secret is appended exactly when the token *)
(* is non-empty, no entry of secrets encodes GIT_AUTH_TOKEN and the        *)
(* resolved context is the default source-control context.                 *)
C3_OnlyDefaultContext ==
  Done =>
    SynthesizedCount =
      (IF /\ inputs.githubToken # <<>>
          /\ ~SecretsEncodeToken
          /\ args[Len(args)] = GitContext
       THEN 1 ELSE 0)

(* C3 amended: the test on the context is a prefix test.  The synthesized  *)
(* secret is appended, once and after the flags of the secret-files, if    *)
(* and only if the token is non-empty, no entry of the secrets input       *)
(* starts with GIT_AUTH_TOKEN= (secret-envs and secret-files are not       *)
(* looked at) and the resolved context starts with the default            *)
(* source-control context.                                                 *)
C3_ContextPrefix ==
  Done =>
    LET resolved == args[Len(args)]
        sv == ValuesOf(args, "--secret")
        appended == /\ inputs.githubToken # <<>>
                    /\ ~SecretsEncodeToken
                    /\ Len(resolved) >= Len(GitContext)
                    /\ \A i \in 1..Len(GitContext) : resolved[i] = GitContext[i]
    IN  /\ SynthesizedCount = (IF appended THEN 1 ELSE 0)
        /\ appended => sv[Len(sv)] = SynthesizedSecret

C3_Witness ==
  /\ Done
  /\ inputs.context = <<"{{defaultContext}}", ":docker">>
  /\ inputs.secretFiles # <<>>
  /\ inputs.secretFiles[1] = <<"GIT_AUTH_TOKEN", "=", "/run/exists">>
  /\ SynthesizedCount = 1

-----------------------------------------------------------------------------
(* the entries of a list that resolve, each replaced by its flag value,    *)
(* and the number of those that do not                                     *)
RECURSIVE Resolved(_)
Resolved(results) ==
  IF results = <<>> THEN <<>>
  ELSE (IF results[1].ok THEN <<results[1].v>> ELSE <<>>) \o Resolved(Tail(results))

Failures(results) == Cardinality({i \in 1..Len(results) : ~results[i].ok})

(* C4: a failing secret entry never aborts the builder.  The run ends with *)
(* one --secret flag per entry that resolves, in input order (secret-envs, *)
(* then secrets, then secret-files, then the synthesized one if any), none *)
(* for a failing entry, and exactly one warning per failing entry.         *)
C4_SecretFailureIsolated ==
  Done =>
    LET envR == SecretEnvResults(inputs)
        strR == SecretResults(inputs)
        fileR == SecretFileResults(inputs, env)
        sv == ValuesOf(args, "--secret")
        own == Len(Resolved(envR)) + Len(Resolved(strR)) + Len(Resolved(fileR))
    IN  /\ Len(sv) = own + SynthesizedCount
        /\ SubSeq(sv, 1, own) = Resolved(envR) \o Resolved(strR) \o Resolved(fileR)
        /\ Count(args, Str("--secret")) = Len(sv)
        /\ Len(warnings) = Failures(envR) + Failures(strR) + Failures(fileR)
        /\ args[1] = Str("build")

C4_Witness ==
  /\ Done
  /\ inputs.secretEnvs = <<Str("NOVALUE"), <<"ENVKEY", "=", "ENVVAR">> >>
  /\ inputs.secrets = << <<"=", "nokey">>, <<"KEY", "=", "value">> >>
  /\ inputs.secretFiles = << <<"FILE", "=", "/run/missing">>,
                             <<"GIT_AUTH_TOKEN", "=", "/run/exists">> >>
  /\ Len(warnings) = 3
  /\ Count(args, Str("--secret")) >= 3

-----------------------------------------------------------------------------
(* an output spec names the local or the tar exporter, or is a bare path   *)
RequestsLocalOrTar(outputs) ==
  \E i \in 1..Len(outputs) :
     LET fields == Split(outputs[i], ",")
     IN  \/ Len(fields) = 1 /\ ~(Len(fields[1]) >= 2 /\ fields[1][1] = "type" /\ fields[1][2] = "=")
         \/ \E j \in 1..Len(fields) :
              fields[j] \in {<<"type", "=", "local">>, <<"type", "=", "tar">>}

(* C5: --iidfile is emitted, once and with the image-ID path, if and only  *)
(* if the outputs request neither a local nor a tar exporter and (there    *)
(* are no platforms or buildx satisfies >=0.4.2).                          *)
C5_Iidfile ==
  Done =>
    LET eligible == /\ ~RequestsLocalOrTar(inputs.outputs)
                    /\ (inputs.platforms = <<>> \/ VersionGte(env.buildx, <<0, 4, 2>>))
    IN  /\ Count(args, Str("--iidfile")) = (IF eligible THEN 1 ELSE 0)
        /\ ValuesOf(args, "--iidfile") = (IF eligible THEN <<ImageIDFilePath>> ELSE <<>>)

C5_Witness ==
  /\ Done
  /\ inputs.outputs = <<>>
  /\ inputs.platforms # <<>>
  /\ env.buildx = <<0, 4, 1>>
  /\ Count(args, Str("--iidfile")) = 0

-----------------------------------------------------------------------------
(* C6: annotations (buildx >=0.12.0) and build-contexts (buildx >=0.8.0):  *)
(* with the gate satisfied one flag and value per entry in input order and *)
(* no warning of that kind; otherwise no flag of that kind and exactly one *)
(* warning if the list is non-empty, none if it is empty.                  *)
C6_VersionGatedLists ==
  Done =>
    /\ IF VersionGte(env.buildx, <<0, 12, 0>>)
       THEN /\ ValuesOf(args, "--annotation") = inputs.annotations
            /\ Count(args, Str("--annotation")) = Len(inputs.annotations)
            /\ Count(warnings, AnnotationsWarning) = 0
       ELSE /\ Count(args, Str("--annotation")) = 0
            /\ Count(warnings, AnnotationsWarning) =
                 (IF inputs.annotations # <<>> THEN 1 ELSE 0)
    /\ IF VersionGte(env.buildx, <<0, 8, 0>>)
       THEN /\ ValuesOf(args, "--build-context") = inputs.buildContexts
            /\ Count(args, Str("--build-context")) = Len(inputs.buildContexts)
            /\ Count(warnings, BuildContextsWarning) = 0
       ELSE /\ Count(args, Str("--build-context")) = 0
            /\ Count(warnings, BuildContextsWarning) =
                 (IF inputs.buildContexts # <<>> THEN 1 ELSE 0)
    /\ Len(warnings) = Count(warnings, AnnotationsWarning)
                         + Count(warnings, BuildContextsWarning)
                         + Count(warnings, AttestationsWarning)

C6_Witness ==
  /\ Done
  /\ env.buildx = <<0, 11, 9>>
  /\ Len(inputs.annotations) = 2
  /\ Len(inputs.buildContexts) = 2
  /\ inputs.buildContexts[1] # inputs.buildContexts[2]
  /\ warnings = <<AnnotationsWarning>>
  /\ Count(args, Str("--build-context")) = 2

-----------------------------------------------------------------------------
PhaseAFlags ==
  {"--add-host", "--allow", "--annotation", "--build-arg", "--build-context",
   "--cache-from", "--cache-to", "--cgroup-parent", "--secret", "--file", "--iidfile",
   "--label", "--no-cache-filter", "--output", "--platform", "--attest", "--shm-size",
   "--ssh", "--tag", "--target", "--ulimit"}

PhaseBFlags ==
  {"--builder", "--load", "--metadata-file", "--network", "--no-cache", "--pull", "--push"}

(* C7: the output of getArgs starts with build, ends with the expanded     *)
(* context, every common flag stands after every build flag and before    *)
(* the context, each common flag is present exactly when its input asks    *)
(* for it, and --metadata-file exactly when buildx satisfies >=0.6.0.      *)
C7_Layout ==
  Done =>
    /\ args[1] = Str("build")
    /\ args[Len(args)] = ExpandContext(inputs.context)
    /\ \A i, j \in 1..Len(args) :
         (args[i] \in {Str(f) : f \in PhaseAFlags} /\ args[j] \in {Str(f) : f \in PhaseBFlags})
           => i < j /\ j < Len(args)
    /\ Count(args, Str("--metadata-file")) =
         (IF VersionGte(env.buildx, <<0, 6, 0>>) THEN 1 ELSE 0)
    /\ ValuesOf(args, "--metadata-file") =
         (IF VersionGte(env.buildx, <<0, 6, 0>>) THEN <<MetadataFilePath>> ELSE <<>>)
    /\ Count(args, Str("--load")) = (IF inputs.load THEN 1 ELSE 0)
    /\ Count(args, Str("--no-cache")) = (IF inputs.noCache THEN 1 ELSE 0)
    /\ Count(args, Str("--pull")) = (IF inputs.pull THEN 1 ELSE 0)
    /\ Count(args, Str("--push")) = (IF inputs.push THEN 1 ELSE 0)
    /\ ValuesOf(args, "--builder") = (IF inputs.builder # <<>> THEN <<inputs.builder>> ELSE <<>>)
    /\ ValuesOf(args, "--network") = (IF inputs.network # <<>> THEN <<inputs.network>> ELSE <<>>)

C7_Witness ==
  /\ Done
  /\ env.buildx = <<0, 5, 9>>
  /\ inputs.context = <<"{{defaultContext}}", ":docker">>
  /\ args[Len(args)] = GitContext \o <<":docker">>
  /\ inputs.push /\ inputs.load /\ inputs.builder # <<>>
  /\ Count(args, Str("--ulimit")) = 1
  /\ Count(args, Str("--metadata-file")) = 0

-----------------------------------------------------------------------------
(* C8: for the host, build-arg, label, tag, ssh and ulimit lists the       *)
(* output has one flag token per entry, each directly followed by its      *)
(* value, the values in input order with duplicates kept: twice the list   *)
(* length in tokens.                                                       *)
C8_RepeatedLists ==
  Done =>
    /\ ValuesOf(args, "--add-host") = inputs.addHosts
    /\ Count(args, Str("--add-host")) = Len(inputs.addHosts)
    /\ ValuesOf(args, "--build-arg") = inputs.buildArgs
    /\ Count(args, Str("--build-arg")) = Len(inputs.buildArgs)
    /\ ValuesOf(args, "--label") = inputs.labels
    /\ Count(args, Str("--label")) = Len(inputs.labels)
    /\ ValuesOf(args, "--tag") = inputs.tags
    /\ Count(args, Str("--tag")) = Len(inputs.tags)
    /\ ValuesOf(args, "--ssh") = inputs.ssh
    /\ Count(args, Str("--ssh")) = Len(inputs.ssh)
    /\ ValuesOf(args, "--ulimit") = inputs.ulimit
    /\ Count(args, Str("--ulimit")) = Len(inputs.ulimit)
    /\ Len(args) = 10 + 2 * ( Len(inputs.addHosts) + Len(inputs.buildArgs) + Len(inputs.labels)
                             + Len(inputs.tags) + Len(inputs.ssh) + Len(inputs.ulimit) )

C8_Witness ==
  /\ Done
  /\ inputs.labels = << <<"l2", "=", "y">>, <<"l2", "=", "y">> >>
  /\ inputs.addHosts = <<Str("h2:10.0.0.2"), Str("h1:10.0.0.1")>>
  /\ Len(inputs.ssh) = 1
  /\ Len(args) = 20

====
